---- MODULE Spec2Model ----
(***************************************************************************)
(* A model of colander (src/colander/__init__.py): the schema node tree,  *)
(* the Mapping / Sequence / Tuple / Integer / Boolean converters, the      *)
(* Range / OneOf / All validators and the Invalid failure tree with its    *)
(* asdict report.                                                          *)
(*                                                                         *)
(* Python values are tagged records; a conversion call is an operator     *)
(* that returns an outcome record: the value returned or the Invalid       *)
(* raised, together with the trace of the converter and validator calls    *)
(* it made.                                                                *)
(***************************************************************************)
EXTENDS Integers, Sequences, FiniteSets, TLC

\* root: the schema node a caller converts with; arg: the caller's input object,
\* arg0: that object as it was handed in; op: the call made; out: what the call
\* returned or raised; report: what asdict of the raised failure returned.
\* prev: the call made before op, when there was one.
VARIABLES root, arg, arg0, pc, op, out, report, prev

vars == <<root, arg, arg0, pc, op, out, report, prev>>

-----------------------------------------------------------------------------
(* Bounds of the model. *)

\* longest list given as input
MaxLen == 2

\* most children declared on a Mapping or Tuple node
MaxChildren == 2

-----------------------------------------------------------------------------
(* Python values. *)

None == [t |-> "none"]

\* the _missing sentinel class
_missing == [t |-> "_missing"]

VStr(s) == [t |-> "str", s |-> s]

VInt(i) == [t |-> "int", i |-> i]

VBool(b) == [t |-> "bool", b |-> b]

VList(items) == [t |-> "list", items |-> items]

VTuple(items) == [t |-> "tuple", items |-> items]

VDict(d) == [t |-> "dict", d |-> d]

EmptyDict == VDict([k \in {} |-> None])

\* the order in which a dict is iterated; the dicts the model iterates (the
\* unmatched entries in a message, a dict given to a Tuple or Sequence node)
\* hold one key
KeyOrder == <<"a", "b", "c", "d", "e", "s", "t", "x", "y", "z">>

DictKeys(v) == SelectSeq(KeyOrder, LAMBDA k : k \in DOMAIN v.d)

\* dict.pop(name): the dict without the entry
DictWithout(v, name) == VDict([k \in (DOMAIN v.d) \ {name} |-> v.d[k]])

\* d[name] = x
DictSet(v, name, x) ==
    VDict([k \in (DOMAIN v.d) \cup {name} |-> IF k = name THEN x ELSE v.d[k]])

\* d.update(e)
DictUpdate(v, e) ==
    VDict([k \in (DOMAIN v.d) \cup (DOMAIN e.d) |->
            IF k \in DOMAIN e.d THEN e.d[k] ELSE v.d[k]])

\* bool(v)
Truthy(v) ==
    CASE v.t = "none" -> FALSE
      [] v.t = "_missing" -> TRUE
      [] v.t = "str" -> v.s # ""
      [] v.t = "int" -> v.i # 0
      [] v.t = "bool" -> v.b
      [] v.t = "list" -> v.items # <<>>
      [] v.t = "tuple" -> v.items # <<>>
      [] v.t = "dict" -> DOMAIN v.d # {}

RECURSIVE JoinStr(_, _)
\* sep.join(strs)
JoinStr(strs, sep) ==
    IF strs = <<>> THEN ""
    ELSE IF Len(strs) = 1 THEN strs[1]
    ELSE strs[1] \o sep \o JoinStr(Tail(strs), sep)

RECURSIVE PyRepr(_)
\* repr(v)
PyRepr(v) ==
    CASE v.t = "none" -> "None"
      [] v.t = "_missing" -> "<_missing>"
      [] v.t = "str" -> "'" \o v.s \o "'"
      [] v.t = "int" -> ToString(v.i)
      [] v.t = "bool" -> IF v.b THEN "True" ELSE "False"
      [] v.t = "list" ->
            "[" \o JoinStr([i \in 1..Len(v.items) |-> PyRepr(v.items[i])], ", ") \o "]"
      [] v.t = "tuple" ->
            IF Len(v.items) = 1 THEN "(" \o PyRepr(v.items[1]) \o ",)"
            ELSE "(" \o JoinStr([i \in 1..Len(v.items) |-> PyRepr(v.items[i])], ", ") \o ")"
      [] v.t = "dict" ->
            LET ks == DictKeys(v)
            IN "{" \o JoinStr([i \in 1..Len(ks) |->
                                 "'" \o ks[i] \o "': " \o PyRepr(v.d[ks[i]])], ", ") \o "}"

\* str(v)
PyStr(v) == IF v.t = "str" THEN v.s ELSE PyRepr(v)

\* hasattr(v, '__iter__')
HasIter(v) == v.t \in {"list", "tuple", "dict"}

\* hasattr(v, 'get')
HasGet(v) == v.t = "dict"

\* list(v) of an iterable
ToList(v) ==
    IF v.t = "dict" THEN LET ks == DictKeys(v) IN [i \in 1..Len(ks) |-> VStr(ks[i])]
    ELSE v.items

\* len(v) of an iterable
PyLen(v) == IF v.t = "dict" THEN Cardinality(DOMAIN v.d) ELSE Len(v.items)

-----------------------------------------------------------------------------
(* Invalid: the failure tree. *)

\* Invalid(node, msg): pos and parent are the class attributes, None
Invalid(n, msg) ==
    [node |-> n, msg |-> msg, pos |-> None, parent |-> None, children |-> <<>>]

\* the parent link set by add: the failure concerning node n
ExcRef(e) == [t |-> "Invalid", node |-> e.node]

\* add that appends the child and leaves its parent link as it was
Add_Unlinked(self, exc) == [self EXCEPT !.children = Append(@, exc)]

\* self.add(exc)
Add(self, exc) ==
    [self EXCEPT !.children = Append(@, [exc EXCEPT !.parent = ExcRef(self)])]

RECURSIVE Flatten(_)
Flatten(seqs) == IF seqs = <<>> THEN <<>> ELSE Head(seqs) \o Flatten(Tail(seqs))

RECURSIVE Paths(_)
\* self.paths(): one path, root first, per failure without children
Paths(e) ==
    IF e.children = <<>> THEN << <<e>> >>
    ELSE LET sub == Flatten([i \in 1..Len(e.children) |-> Paths(e.children[i])])
         IN [j \in 1..Len(sub) |-> <<e>> \o sub[j]]

IsPositional(typ) == typ.cls \in {"Tuple", "Sequence"}

\* _keyname without the test of the parent's type: the position under any parent
Keyname_AnyParent(e) ==
    IF e.parent # None THEN PyStr(e.pos) ELSE PyStr(VStr(e.node.name))

\* _keyname without the positional case: always the name of the node
Keyname_NameOnly(e) == PyStr(VStr(e.node.name))

\* self._keyname()
Keyname(e) ==
    IF e.parent # None /\ IsPositional(e.parent.node.typ)
    THEN PyStr(e.pos)
    ELSE PyStr(VStr(e.node.name))

\* the msgs list asdict builds for one path
PathMsgs(path) ==
    LET has == SelectSeq(path, LAMBDA e : Truthy(e.msg))
    IN [i \in 1..Len(has) |-> has[i].msg]

\* the keyparts list asdict builds for one path
PathKeyparts(path) ==
    LET ks == [i \in 1..Len(path) |-> Keyname(path[i])]
    IN SelectSeq(ks, LAMBDA k : k # "")

\* '; '.join(msgs) raises TypeError on an item that is not a string
JoinFails(msgs) == \E i \in 1..Len(msgs) : msgs[i].t # "str"

PathKey(path) == JoinStr(PathKeyparts(path), ".")

PathValue(path) ==
    LET msgs == PathMsgs(path) IN JoinStr([i \in 1..Len(msgs) |-> msgs[i].s], "; ")

\* self.asdict(): the errors dict, a later path overwriting an earlier one
AsDict(e) ==
    LET paths == Paths(e)
        keys == {PathKey(paths[i]) : i \in 1..Len(paths)}
        last(k) == CHOOSE i \in 1..Len(paths) :
                      /\ PathKey(paths[i]) = k
                      /\ \A j \in 1..Len(paths) : PathKey(paths[j]) = k => j <= i
    IN IF \E i \in 1..Len(paths) : JoinFails(PathMsgs(paths[i]))
       THEN [ok |-> FALSE, error |-> "TypeError", errors |-> [k \in {} |-> ""]]
       ELSE [ok |-> TRUE, error |-> "",
             errors |-> [k \in keys |-> PathValue(paths[last(k)])]]

-----------------------------------------------------------------------------
(* Outcomes of a call: a returned value or a raised Invalid, the trace of  *)
(* the node-level calls made, and the caller's argument object afterwards. *)

Ok(val, log, a) == [ok |-> TRUE, val |-> val, exc |-> None, log |-> log, arg |-> a]

Raise(exc, log, a) == [ok |-> FALSE, val |-> None, exc |-> exc, log |-> log, arg |-> a]

Event(call, n, v) == [call |-> call, node |-> n, arg |-> v]

-----------------------------------------------------------------------------
(* Scalar converters. *)

\* the integers whose decimal text int() parses in the model
IntRange == -9..9

\* int(v)
IntOf(v) ==
    CASE v.t = "int" -> [ok |-> TRUE, i |-> v.i]
      [] v.t = "bool" -> [ok |-> TRUE, i |-> IF v.b THEN 1 ELSE 0]
      [] v.t = "str" ->
            IF \E i \in IntRange : ToString(i) = v.s
            THEN [ok |-> TRUE, i |-> CHOOSE i \in IntRange : ToString(i) = v.s]
            ELSE [ok |-> FALSE, i |-> 0]
      [] OTHER -> [ok |-> FALSE, i |-> 0]

\* s.lower(), for the strings of the model that hold capitals
Lower(s) ==
    CASE s = "False" -> "false"
      [] s = "FALSE" -> "false"
      [] s = "True" -> "true"
      [] s = "TRUE" -> "true"
      [] s = "None" -> "none"
      [] OTHER -> s

Integer_deserialize(n, v) ==
    LET r == IntOf(v)
    IN IF r.ok THEN Ok(VInt(r.i), <<>>, v)
       ELSE Raise(Invalid(n, VStr(PyRepr(v) \o " is not a number")), <<>>, v)

Integer_serialize(n, v) ==
    LET r == IntOf(v)
    IN IF r.ok THEN Ok(VStr(ToString(r.i)), <<>>, v)
       ELSE Raise(Invalid(n, VStr(PyRepr(v) \o " is not a number")), <<>>, v)

\* Boolean.deserialize as bool(value)
Boolean_deserialize_Truthy(n, v) == Ok(VBool(Truthy(v)), <<>>, v)

Boolean_deserialize(n, v) ==
    IF Lower(PyStr(v)) \in {"false", "0"}
    THEN Ok(VBool(FALSE), <<>>, v)
    ELSE Ok(VBool(TRUE), <<>>, v)

Boolean_serialize(n, v) ==
    Ok(VStr(IF Truthy(v) THEN "true" ELSE "false"), <<>>, v)

-----------------------------------------------------------------------------
(* Validators: None when the value passes, else the Invalid raised. *)

NoValidator == [cls |-> "none"]

Range(min, max) == [cls |-> "Range", min |-> min, max |-> max]

OneOf(values) == [cls |-> "OneOf", values |-> values]

All(validators) == [cls |-> "All", validators |-> validators]

\* the number a value compares as
NumOf(v) == IF v.t = "bool" THEN (IF v.b THEN 1 ELSE 0) ELSE v.i

IsNum(v) == v.t \in {"int", "bool"}

\* a == b
PyEq(a, b) == IF IsNum(a) /\ IsNum(b) THEN NumOf(a) = NumOf(b) ELSE a = b

Range_call(vd, n, v) ==
    IF vd.min # None /\ NumOf(v) < NumOf(vd.min)
    THEN Invalid(n, VStr(PyRepr(v) \o " is less than minimum value " \o PyRepr(vd.min)))
    ELSE IF vd.max # None /\ NumOf(v) > NumOf(vd.max)
    THEN Invalid(n, VStr(PyRepr(v) \o " is greater than maximum value " \o PyRepr(vd.max)))
    ELSE None

OneOf_call(vd, n, v) ==
    IF \E i \in 1..Len(vd.values.items) : PyEq(v, vd.values.items[i])
    THEN None
    ELSE Invalid(n, VStr(PyRepr(v) \o " is not one of " \o PyRepr(vd.values)))

RECURSIVE Validator_call(_, _, _)

\* All.__call__: the msg of every subvalidator that raised, as one list
All_call(vd, n, v) ==
    LET res == [i \in 1..Len(vd.validators) |-> Validator_call(vd.validators[i], n, v)]
        bad == SelectSeq(res, LAMBDA e : e # None)
        msgs == [i \in 1..Len(bad) |-> bad[i].msg]
    IN IF msgs # <<>> THEN Invalid(n, VList(msgs)) ELSE None

\* validator(node, value)
Validator_call(vd, n, v) ==
    CASE vd.cls = "Range" -> Range_call(vd, n, v)
      [] vd.cls = "OneOf" -> OneOf_call(vd, n, v)
      [] vd.cls = "All" -> All_call(vd, n, v)

-----------------------------------------------------------------------------
(* Schema nodes and their types. *)

Mapping(unknown_keys) == [cls |-> "Mapping", unknown_keys |-> unknown_keys]

Sequence(accept_scalar) == [cls |-> "Sequence", accept_scalar |-> accept_scalar]

Tuple == [cls |-> "Tuple"]

Integer == [cls |-> "Integer"]

Boolean == [cls |-> "Boolean"]

\* SchemaNode(typ, *nodes, name=, default=, validator=)
SchemaNode(typ, nodes, name, default, validator) ==
    [typ |-> typ, nodes |-> nodes, name |-> name, default |-> default,
     validator |-> validator]

\* SchemaNode.required
Required(n) == n.default = _missing

-----------------------------------------------------------------------------
(* Composite converters. *)

\* the text of the exception dict(v) raises
DictErrorText(v) ==
    CASE v.t = "none" -> "'NoneType' object is not iterable"
      [] v.t = "int" -> "'int' object is not iterable"
      [] v.t = "bool" -> "'bool' object is not iterable"
      [] v.t = "str" -> "dictionary update sequence element #0 has length 1; 2 is required"
      [] OTHER -> "cannot convert dictionary update sequence element #0 to a sequence"

IsPair(v) == v.t \in {"list", "tuple"} /\ Len(v.items) = 2 /\ v.items[1].t = "str"

\* dict(v) can be built
DictAble(v) ==
    \/ v.t = "dict"
    \/ v.t = "str" /\ v.s = ""
    \/ v.t \in {"list", "tuple"} /\ \A i \in 1..Len(v.items) : IsPair(v.items[i])

\* dict(v): a new dict, never the caller's object
DictOf(v) ==
    IF v.t = "dict" THEN v
    ELSE IF v.t = "str" THEN EmptyDict
    ELSE VDict([k \in {v.items[i].items[1].s : i \in 1..Len(v.items)} |->
                 LET last == CHOOSE i \in 1..Len(v.items) :
                                /\ v.items[i].items[1].s = k
                                /\ \A j \in 1..Len(v.items) :
                                      v.items[j].items[1].s = k => j <= i
                 IN v.items[last].items[2]])

\* Mapping._validate returning the caller's own dict instead of a copy
Mapping_validate_Shared(n, v) ==
    IF DictAble(v)
    THEN [ok |-> TRUE, val |-> DictOf(v), shared |-> v.t = "dict", exc |-> None]
    ELSE [ok |-> FALSE, val |-> None, shared |-> FALSE,
          exc |-> Invalid(n, VStr(PyRepr(v) \o " is not a mapping type: "
                                    \o DictErrorText(v)))]

\* Mapping._validate: shared says whether the dict returned is the caller's object
Mapping_validate(n, v) ==
    IF DictAble(v)
    THEN [ok |-> TRUE, val |-> DictOf(v), shared |-> FALSE, exc |-> None]
    ELSE [ok |-> FALSE, val |-> None, shared |-> FALSE,
          exc |-> Invalid(n, VStr(PyRepr(v) \o " is not a mapping type: "
                                    \o DictErrorText(v)))]

\* Tuple._validate refusing only an input with too few elements
Tuple_validate_AtLeast(n, v) ==
    IF ~HasIter(v)
    THEN [ok |-> FALSE, val |-> None,
          exc |-> Invalid(n, VStr(PyRepr(v) \o " is not iterable"))]
    ELSE IF PyLen(v) < Len(n.nodes)
    THEN [ok |-> FALSE, val |-> None,
          exc |-> Invalid(n, VStr(PyStr(v) \o " has an incorrect number of elements "
                                    \o "(expected " \o ToString(Len(n.nodes))
                                    \o ", was " \o ToString(PyLen(v)) \o ")"))]
    ELSE [ok |-> TRUE, val |-> ToList(v), exc |-> None]

\* Tuple._validate
Tuple_validate(n, v) ==
    IF ~HasIter(v)
    THEN [ok |-> FALSE, val |-> None,
          exc |-> Invalid(n, VStr(PyRepr(v) \o " is not iterable"))]
    ELSE IF PyLen(v) # Len(n.nodes)
    THEN [ok |-> FALSE, val |-> None,
          exc |-> Invalid(n, VStr(PyStr(v) \o " has an incorrect number of elements "
                                    \o "(expected " \o ToString(Len(n.nodes))
                                    \o ", was " \o ToString(PyLen(v)) \o ")"))]
    ELSE [ok |-> TRUE, val |-> ToList(v), exc |-> None]

\* Sequence._validate without the test for a mapping
Sequence_validate_NoGetCheck(n, v) ==
    IF HasIter(v)
    THEN [ok |-> TRUE, val |-> ToList(v), exc |-> None]
    ELSE IF n.typ.accept_scalar
    THEN [ok |-> TRUE, val |-> <<v>>, exc |-> None]
    ELSE [ok |-> FALSE, val |-> None,
          exc |-> Invalid(n, VStr(PyRepr(v) \o " is not iterable"))]

\* Sequence._validate
Sequence_validate(n, v) ==
    IF HasIter(v) /\ ~HasGet(v)
    THEN [ok |-> TRUE, val |-> ToList(v), exc |-> None]
    ELSE IF n.typ.accept_scalar
    THEN [ok |-> TRUE, val |-> <<v>>, exc |-> None]
    ELSE [ok |-> FALSE, val |-> None,
          exc |-> Invalid(n, VStr(PyRepr(v) \o " is not iterable"))]

\* the except clause keeping the first child failure only
Collect_FirstOnly(error, n, e, num) ==
    IF error = None THEN Add(Invalid(n, None), [e EXCEPT !.pos = VInt(num)]) ELSE error

\* the except clause of the three _impl loops: error.add(e) with e.pos = num
Collect(error, n, e, num) ==
    Add(IF error = None THEN Invalid(n, None) ELSE error, [e EXCEPT !.pos = VInt(num)])

RECURSIVE SchemaNode_call(_, _, _)
RECURSIVE Mapping_loop(_, _, _, _)
RECURSIVE Tuple_loop(_, _, _, _, _)
RECURSIVE Sequence_loop(_, _, _, _, _)

\* callback(subnode, subval) of the deserialize and serialize methods:
\* subnode.deserialize(subval) or subnode.serialize(subval)
Callback(dir, subnode, subval) == SchemaNode_call(dir, subnode, subval)

\* default_callback that converts the default as it would an entry of the input
Default_callback_Converted(dir, subnode) == SchemaNode_call(dir, subnode, subnode.default)

\* default_callback(subnode) of Mapping.deserialize and Mapping.serialize
Default_callback(dir, subnode) ==
    IF dir = "deserialize" THEN Ok(subnode.default, <<>>, subnode.default)
    ELSE SchemaNode_call("serialize", subnode, subnode.default)

\* one round of the loop of Mapping._impl over node.nodes, for child i and after
Mapping_loop(n, dir, i, acc) ==
    IF i > Len(n.nodes) THEN acc
    ELSE LET subnode == n.nodes[i]
             name == subnode.name
             present == name \in DOMAIN acc.value.d
             rest == DictWithout(acc.value, name)
             r == IF ~present
                  THEN IF Required(subnode)
                       THEN Raise(Invalid(subnode,
                                          VStr(PyRepr(VStr(name)) \o " is required but missing")),
                                  <<>>, None)
                       ELSE Default_callback(dir, subnode)
                  ELSE Callback(dir, subnode, acc.value.d[name])
         IN Mapping_loop(n, dir, i + 1,
               [value |-> rest,
                error |-> IF r.ok THEN acc.error ELSE Collect(acc.error, n, r.exc, i - 1),
                result |-> IF r.ok THEN DictSet(acc.result, name, r.val) ELSE acc.result,
                log |-> acc.log \o r.log])

\* what Mapping._impl does with the entries left after the loop
Mapping_finish(n, v, acc, shared) ==
    LET mine == IF shared THEN acc.value ELSE v
    IN IF n.typ.unknown_keys = "raise" /\ Truthy(acc.value)
       THEN Raise(Invalid(n, VStr("Unrecognized keys in mapping: " \o PyRepr(acc.value))),
                  acc.log, mine)
       ELSE IF acc.error # None
       THEN Raise(acc.error, acc.log, mine)
       ELSE IF n.typ.unknown_keys = "preserve"
       THEN Ok(DictUpdate(acc.result, acc.value), acc.log, mine)
       ELSE Ok(acc.result, acc.log, mine)

\* Mapping._impl
Mapping_impl(n, v, dir) ==
    LET c == Mapping_validate(n, v)
    IN IF ~c.ok THEN Raise(c.exc, <<>>, v)
       ELSE Mapping_finish(n, v,
               Mapping_loop(n, dir, 1,
                  [value |-> c.val, error |-> None, result |-> EmptyDict, log |-> <<>>]),
               c.shared)

\* one round of the loop of Tuple._impl over node.nodes
Tuple_loop(n, dir, items, i, acc) ==
    IF i > Len(n.nodes) THEN acc
    ELSE LET r == Callback(dir, n.nodes[i], items[i])
         IN Tuple_loop(n, dir, items, i + 1,
               [error |-> IF r.ok THEN acc.error ELSE Collect(acc.error, n, r.exc, i - 1),
                result |-> IF r.ok THEN Append(acc.result, r.val) ELSE acc.result,
                log |-> acc.log \o r.log])

\* Tuple._impl
Tuple_impl(n, v, dir) ==
    LET c == Tuple_validate(n, v)
    IN IF ~c.ok THEN Raise(c.exc, <<>>, v)
       ELSE LET acc == Tuple_loop(n, dir, c.val, 1,
                          [error |-> None, result |-> <<>>, log |-> <<>>])
            IN IF acc.error # None THEN Raise(acc.error, acc.log, v)
               ELSE Ok(VTuple(acc.result), acc.log, v)

\* one round of the loop of Sequence._impl over the elements
Sequence_loop(n, dir, items, i, acc) ==
    IF i > Len(items) THEN acc
    ELSE LET r == Callback(dir, n.nodes[1], items[i])
         IN Sequence_loop(n, dir, items, i + 1,
               [error |-> IF r.ok THEN acc.error ELSE Collect(acc.error, n, r.exc, i - 1),
                result |-> IF r.ok THEN Append(acc.result, r.val) ELSE acc.result,
                log |-> acc.log \o r.log])

\* Sequence._impl
Sequence_impl(n, v, dir) ==
    LET c == Sequence_validate(n, v)
    IN IF ~c.ok THEN Raise(c.exc, <<>>, v)
       ELSE LET acc == Sequence_loop(n, dir, c.val, 1,
                          [error |-> None, result |-> <<>>, log |-> <<>>])
            IN IF acc.error # None THEN Raise(acc.error, acc.log, v)
               ELSE Ok(VList(acc.result), acc.log, v)

\* self.typ.deserialize(self, value)
Typ_deserialize(n, v) ==
    CASE n.typ.cls = "Mapping" -> Mapping_impl(n, v, "deserialize")
      [] n.typ.cls = "Tuple" -> Tuple_impl(n, v, "deserialize")
      [] n.typ.cls = "Sequence" -> Sequence_impl(n, v, "deserialize")
      [] n.typ.cls = "Integer" -> Integer_deserialize(n, v)
      [] n.typ.cls = "Boolean" -> Boolean_deserialize(n, v)

\* self.typ.serialize(self, value)
Typ_serialize(n, v) ==
    CASE n.typ.cls = "Mapping" -> Mapping_impl(n, v, "serialize")
      [] n.typ.cls = "Tuple" -> Tuple_impl(n, v, "serialize")
      [] n.typ.cls = "Sequence" -> Sequence_impl(n, v, "serialize")
      [] n.typ.cls = "Integer" -> Integer_serialize(n, v)
      [] n.typ.cls = "Boolean" -> Boolean_serialize(n, v)

\* SchemaNode.deserialize wrapping the validator's failure in a failure of its own
Deserialize_body_Wrapped(n, v, r) ==
    LET log1 == <<Event("deserialize", n, v)>> \o r.log
    IN IF ~r.ok THEN Raise(r.exc, log1, r.arg)
       ELSE IF n.validator # NoValidator
       THEN LET e == Validator_call(n.validator, n, r.val)
                log2 == Append(log1, Event("validator", n, r.val))
            IN IF e # None THEN Raise(Add(Invalid(n, None), e), log2, r.arg)
               ELSE Ok(r.val, log2, r.arg)
       ELSE Ok(r.val, log1, r.arg)

\* the body of SchemaNode.deserialize, given what self.typ.deserialize did
Deserialize_body(n, v, r) ==
    LET log1 == <<Event("deserialize", n, v)>> \o r.log
    IN IF ~r.ok THEN Raise(r.exc, log1, r.arg)
       ELSE IF n.validator # NoValidator
       THEN LET e == Validator_call(n.validator, n, r.val)
                log2 == Append(log1, Event("validator", n, r.val))
            IN IF e # None THEN Raise(e, log2, r.arg) ELSE Ok(r.val, log2, r.arg)
       ELSE Ok(r.val, log1, r.arg)

\* the body of SchemaNode.serialize, given what self.typ.serialize did
Serialize_body(n, v, r) ==
    LET log1 == <<Event("serialize", n, v)>> \o r.log
    IN IF ~r.ok THEN Raise(r.exc, log1, r.arg) ELSE Ok(r.val, log1, r.arg)

\* a call of SchemaNode.deserialize or SchemaNode.serialize
SchemaNode_call(dir, n, v) ==
    IF dir = "deserialize" THEN Deserialize_body(n, v, Typ_deserialize(n, v))
    ELSE Serialize_body(n, v, Typ_serialize(n, v))

\* SchemaNode.deserialize
SchemaNode_deserialize(n, v) == SchemaNode_call("deserialize", n, v)

\* SchemaNode.serialize
SchemaNode_serialize(n, v) == SchemaNode_call("serialize", n, v)

-----------------------------------------------------------------------------
(* The schemas and the inputs the model converts. *)

\* the leaf nodes: SchemaNode(Integer()), SchemaNode(Integer(), default=0,
\* validator=Range(min=2)), SchemaNode(Integer(), validator=All(Range(min=2),
\* OneOf([5]))), SchemaNode(Boolean()), SchemaNode(Boolean(), default=True)
Leaf(kind, name) ==
    CASE kind = 1 -> SchemaNode(Integer, <<>>, name, _missing, NoValidator)
      [] kind = 2 -> SchemaNode(Integer, <<>>, name, VInt(0), Range(VInt(2), None))
      [] kind = 3 -> SchemaNode(Integer, <<>>, name, _missing,
                                All(<<Range(VInt(2), None), OneOf(VList(<<VInt(5)>>))>>))
      [] kind = 4 -> SchemaNode(Boolean, <<>>, name, _missing, NoValidator)
      [] kind = 5 -> SchemaNode(Boolean, <<>>, name, VBool(TRUE), NoValidator)

LeafKinds == 1..5

\* the names of declared children, by position
ChildNames == <<"a", "b", "c", "d", "e", "f", "g", "h">>

\* k leaf children, of the kinds that follow kind o in turn
Children(o, k) == [i \in 1..k |-> Leaf(((o + i - 2) % 5) + 1, ChildNames[i])]

Policies == {"ignore", "raise", "preserve"}

\* Mapping, Tuple and Sequence nodes over leaf nodes
FlatSchemas ==
    {SchemaNode(Mapping(p), Children(o, k), nm, _missing, NoValidator) :
        p \in Policies, o \in LeafKinds, k \in 1..MaxChildren, nm \in {"", "m"}}
    \cup {SchemaNode(Tuple, Children(o, k), nm, _missing, NoValidator) :
            o \in LeafKinds, k \in 1..MaxChildren, nm \in {"", "t"}}
    \cup {SchemaNode(Sequence(acc), <<Leaf(o, tn)>>, nm, _missing, NoValidator) :
            acc \in BOOLEAN, o \in LeafKinds, nm \in {"", "s"}, tn \in {"", "e"}}

\* a Mapping of a Sequence of Integer and a Tuple of (Boolean, Integer)
NestedMixed(p, nm) ==
    SchemaNode(Mapping(p),
               <<SchemaNode(Sequence(FALSE), <<Leaf(1, "e")>>, "s", _missing, NoValidator),
                 SchemaNode(Tuple, <<Leaf(4, "x"), Leaf(3, "y")>>, "t", _missing,
                            NoValidator)>>,
               nm, _missing, NoValidator)

\* a Mapping of a Sequence of Boolean and a Tuple of (Boolean, Boolean)
NestedBoolean(p, acc) ==
    SchemaNode(Mapping(p),
               <<SchemaNode(Sequence(acc), <<Leaf(4, "e")>>, "s", _missing, NoValidator),
                 SchemaNode(Tuple, <<Leaf(4, "x"), Leaf(4, "y")>>, "t", _missing,
                            NoValidator)>>,
               "", _missing, NoValidator)

\* a Sequence of Mapping nodes, and a Sequence of Tuple nodes
NestedSequence(acc, p, o) ==
    SchemaNode(Sequence(acc),
               <<SchemaNode(Mapping(p), <<Leaf(o, "a")>>, "row", _missing, NoValidator)>>,
               "", _missing, NoValidator)

NestedTuples(acc, nm) ==
    SchemaNode(Sequence(acc),
               <<SchemaNode(Tuple, <<Leaf(1, "x"), Leaf(4, "y")>>, "pair", _missing,
                            NoValidator)>>,
               nm, _missing, NoValidator)

\* leaf nodes converted on their own, and a Sequence node with a validator
SingleSchemas ==
    {Leaf(o, nm) : o \in LeafKinds, nm \in {"", "n"}}
    \cup {SchemaNode(Sequence(acc), <<Leaf(1, "e")>>, "q", _missing,
                     OneOf(VList(<<VList(<<VInt(1)>>), VList(<<>>)>>))) : acc \in BOOLEAN}

NestedSchemas ==
    {NestedMixed(p, nm) : p \in {"ignore", "raise"}, nm \in {"", "m"}}
    \cup {NestedBoolean(p, acc) : p \in Policies, acc \in BOOLEAN}
    \cup {NestedSequence(acc, p, o) : acc \in BOOLEAN, p \in {"ignore", "raise"},
                                      o \in {1, 4}}
    \cup {NestedTuples(acc, nm) : acc \in BOOLEAN, nm \in {"", "s"}}

\* SchemaNode(Integer(), default=None): an optional node whose default is None
OptionalLeaf(name) == SchemaNode(Integer, <<>>, name, None, NoValidator)

\* Mapping nodes whose first child is optional with the default None
OptionalSchemas ==
    {SchemaNode(Mapping(p),
                <<OptionalLeaf("a")>> \o
                   [i \in 1..k |-> Leaf(((o + i - 2) % 5) + 1, ChildNames[i + 1])],
                nm, _missing, NoValidator) :
        p \in Policies, o \in {1, 2}, k \in 0..(MaxChildren - 1), nm \in {"", "m"}}

Schemas == FlatSchemas \cup SingleSchemas \cup NestedSchemas \cup OptionalSchemas

IsLeaf(n) == n.typ.cls \in {"Integer", "Boolean"}

Nested(n) == ~IsLeaf(n) /\ \E i \in 1..Len(n.nodes) : ~IsLeaf(n.nodes[i])

RECURSIVE Inputs(_, _)
RECURSIVE DictInputs(_, _, _)
RECURSIVE ListInputs(_, _, _, _)

\* the values handed to a leaf node: external text and internal values
LeafInputs(n, lean) ==
    IF n.typ.cls = "Integer"
    THEN IF lean THEN {VStr("1"), VStr("bad")} ELSE {VStr("1"), VStr("bad"), VInt(3)}
    ELSE IF lean THEN {VBool(TRUE), VBool(FALSE)}
         ELSE {VBool(TRUE), VBool(FALSE), VStr("False")}

\* the dicts over children i and after: each entry absent or an input of its child
DictInputs(n, i, lean) ==
    IF i > Len(n.nodes) THEN {EmptyDict}
    ELSE LET rest == DictInputs(n, i + 1, lean)
         IN rest \cup {DictSet(d, n.nodes[i].name, x) :
                         d \in rest, x \in Inputs(n.nodes[i], lean)}

\* the lists of m elements, positions i and after: element j an input of child
\* j of a Tuple, of the template of a Sequence
ListInputs(n, i, m, lean) ==
    IF i > m THEN {<<>>}
    ELSE LET sub == IF n.typ.cls = "Sequence" THEN n.nodes[1]
                    ELSE IF i <= Len(n.nodes) THEN n.nodes[i] ELSE Leaf(1, "")
         IN {<<x>> \o s : x \in Inputs(sub, TRUE) \cup
                                 (IF lean THEN {} ELSE Inputs(sub, FALSE)),
                          s \in ListInputs(n, i + 1, m, lean)}

\* the values handed to node n
Inputs(n, lean) ==
    CASE IsLeaf(n) -> LeafInputs(n, lean)
      [] n.typ.cls = "Mapping" ->
            LET ds == DictInputs(n, 1, lean \/ Nested(n))
            IN IF lean THEN ds
               ELSE ds \cup {DictSet(d, "y", VStr("2")) : d \in ds} \cup {None}
      [] n.typ.cls = "Sequence" ->
            LET ls == UNION {ListInputs(n, 1, m, lean \/ Nested(n)) : m \in 0..MaxLen}
            IN IF lean THEN {VList(l) : l \in ls}
               ELSE {VList(l) : l \in ls} \cup {None, VStr("bad"), VInt(3),
                                               VDict([k \in {"a"} |-> VStr("1")])}
      [] n.typ.cls = "Tuple" ->
            LET ls == UNION {ListInputs(n, 1, m, lean \/ Nested(n)) : m \in 0..MaxLen}
                ts == {VTuple(l) : l \in ListInputs(n, 1, Len(n.nodes), lean \/ Nested(n))}
            IN IF lean
               THEN {VList(l) : l \in ListInputs(n, 1, Len(n.nodes), TRUE)}
                    \cup ts \cup {VList(<<>>)}
               ELSE {VList(l) : l \in ls} \cup ts
                    \cup {None, VDict([k \in {"a"} |-> VStr("1")])}

\* the values a caller hands to the root node
RootInputs(n) == IF IsLeaf(n) THEN Inputs(n, FALSE) \cup {None} ELSE Inputs(n, FALSE)

-----------------------------------------------------------------------------
(* The caller: one conversion call on a schema, then asdict of the failure *)
(* raised, or the inbound conversion of what the outbound one returned.    *)

NoOutcome == [ok |-> FALSE, val |-> None, exc |-> None, log |-> <<>>, arg |-> None]

NoReport == [ok |-> FALSE, error |-> "none", errors |-> [k \in {} |-> ""]]

NoCall == [op |-> "none", arg0 |-> None, out |-> NoOutcome]

Init ==
    /\ root \in Schemas
    /\ arg \in RootInputs(root)
    /\ arg0 = arg
    /\ pc = "ready"
    /\ op = "none"
    /\ out = NoOutcome
    /\ report = NoReport
    /\ prev = NoCall

\* root.deserialize(arg)
Deserialize ==
    /\ pc = "ready"
    /\ LET r == SchemaNode_deserialize(root, arg)
       IN /\ out' = r
          /\ arg' = r.arg
          /\ pc' = IF r.ok THEN "returned" ELSE "raised"
    /\ op' = "deserialize"
    /\ UNCHANGED <<root, arg0, report, prev>>

\* root.serialize(arg)
Serialize ==
    /\ pc = "ready"
    /\ LET r == SchemaNode_serialize(root, arg)
       IN /\ out' = r
          /\ arg' = r.arg
          /\ pc' = IF r.ok THEN "returned" ELSE "raised"
    /\ op' = "serialize"
    /\ UNCHANGED <<root, arg0, report, prev>>

\* root.deserialize(root.serialize(arg)): the second call, on what the first returned
DeserializeSerialized ==
    /\ pc = "returned"
    /\ op = "serialize"
    /\ prev = NoCall
    /\ LET r == SchemaNode_deserialize(root, out.val)
       IN /\ out' = r
          /\ arg' = r.arg
          /\ pc' = IF r.ok THEN "returned" ELSE "raised"
    /\ arg0' = out.val
    /\ op' = "deserialize"
    /\ prev' = [op |-> op, arg0 |-> arg0, out |-> out]
    /\ UNCHANGED <<root, report>>

\* e.asdict() of the Invalid the call raised
Asdict ==
    /\ pc = "raised"
    /\ report' = AsDict(out.exc)
    /\ pc' = "reported"
    /\ UNCHANGED <<root, arg, arg0, op, out, prev>>

Next == Deserialize \/ Serialize \/ DeserializeSerialized \/ Asdict

Spec == Init /\ [][Next]_vars

-----------------------------------------------------------------------------
(* What the claims speak of, computed from the schema and the input alone. *)

\* a conversion call has been made and this is its outcome
Called == pc # "ready"

\* the failure raised, as the composite leaves it on the child list of its own
\* failure: tagged with the position and linked to the parent failure
Tagged(e, parent, num) == [e EXCEPT !.pos = VInt(num), !.parent = ExcRef(parent)]

\* the aggregate failure of node n over the child failures es
Aggregate(n, es) ==
    [node |-> n, msg |-> None, pos |-> None, parent |-> None, children |-> es]

\* the Mapping call under way: its input as a dict, its declared names, the
\* input entries that match no declared child
InDict == DictOf(arg0)

Declared == {root.nodes[i].name : i \in 1..Len(root.nodes)}

Unmatched == VDict([k \in (DOMAIN InDict.d) \ Declared |-> InDict.d[k]])

MappingCalled == Called /\ root.typ.cls = "Mapping" /\ DictAble(arg0)

Absent(i) == root.nodes[i].name \notin DOMAIN InDict.d

\* what handling declared child i of the Mapping root amounts to
MappingChild(i) ==
    LET sub == root.nodes[i]
    IN IF ~Absent(i) THEN SchemaNode_call(op, sub, InDict.d[sub.name])
       ELSE IF Required(sub)
       THEN Raise(Invalid(sub, VStr("'" \o sub.name \o "' is required but missing")),
                  <<>>, None)
       ELSE IF op = "deserialize" THEN Ok(sub.default, <<>>, None)
       ELSE SchemaNode_call("serialize", sub, sub.default)

\* the indices of the failing declared children, in declaration order
MappingFailing ==
    SelectSeq([i \in 1..Len(root.nodes) |-> i], LAMBDA i : ~MappingChild(i).ok)

\* the aggregated failure of the Mapping root
MappingAggregate ==
    Aggregate(root, [j \in 1..Len(MappingFailing) |->
                        Tagged(MappingChild(MappingFailing[j]).exc,
                               Aggregate(root, <<>>), MappingFailing[j] - 1)])

\* the result of the Mapping root over its declared children
MappingConverted == VDict([k \in Declared |->
                       MappingChild(CHOOSE i \in 1..Len(root.nodes) :
                                       root.nodes[i].name = k).val])

\* the converter of the root returned val: the call returns val, unless it is an
\* inbound call on a node whose validator rejects val and raises
ConverterReturned(val) ==
    IF op = "deserialize" /\ root.validator # NoValidator
                          /\ Validator_call(root.validator, root, val) # None
    THEN ~out.ok /\ out.exc = Validator_call(root.validator, root, val)
    ELSE out.ok /\ out.val = val

UnrecognizedFailure ==
    Invalid(root, VStr("Unrecognized keys in mapping: " \o PyRepr(Unmatched)))

RaiseWithUnmatched == root.typ.unknown_keys = "raise" /\ DOMAIN Unmatched.d # {}

-----------------------------------------------------------------------------
(* C1 *)

\* C1, as stated: whenever a declared child of a Mapping node fails, under every
\* unknown-key policy and whatever entries match no declared child, the call
\* raises the aggregated failure: no message, one child failure per failing
\* declared child in declaration order, none for a child that succeeded.
C1_AlwaysAggregated ==
    (MappingCalled /\ MappingFailing # <<>>)
        => (~out.ok /\ out.exc = MappingAggregate)

\* C1, amended: whenever a declared child of a Mapping node fails the call
\* raises and returns no value; the failure raised is the aggregated failure,
\* except under policy raise with an input entry that matches no declared child,
\* where it is the 'unrecognized keys' failure, which has no child failures.
C1_AggregatedUnlessUnrecognized ==
    (MappingCalled /\ MappingFailing # <<>>)
        => /\ ~out.ok
           /\ out.val = None
           /\ out.exc = IF RaiseWithUnmatched THEN UnrecognizedFailure
                        ELSE MappingAggregate

\* a Mapping call where one declared child failed and another succeeded
C1_Witness ==
    /\ MappingCalled
    /\ Len(root.nodes) >= 2
    /\ Len(MappingFailing) = 1
    /\ ~out.ok
    /\ Len(out.exc.children) = 1
    /\ ~RaiseWithUnmatched
    /\ DOMAIN Unmatched.d # {}

-----------------------------------------------------------------------------
(* C2 *)

PositionalCalled ==
    /\ Called
    /\ root.typ.cls \in {"Sequence", "Tuple"}
    /\ IF root.typ.cls = "Sequence" THEN Sequence_validate(root, arg0).ok
       ELSE Tuple_validate(root, arg0).ok

\* the elements the Sequence or Tuple root converts, and the node of each
Elements ==
    IF root.typ.cls = "Sequence" THEN Sequence_validate(root, arg0).val
    ELSE Tuple_validate(root, arg0).val

ElementNode(i) == IF root.typ.cls = "Sequence" THEN root.nodes[1] ELSE root.nodes[i]

Element(i) == SchemaNode_call(op, ElementNode(i), Elements[i])

ElementsFailing == SelectSeq([i \in 1..Len(Elements) |-> i], LAMBDA i : ~Element(i).ok)

\* the calls made on the children of the root, in the order made
ChildCalls ==
    SelectSeq(out.log, LAMBDA e : /\ e.call = op
                                  /\ \E i \in 1..Len(root.nodes) : e.node = root.nodes[i])

PositionalAggregate ==
    Aggregate(root, [j \in 1..Len(ElementsFailing) |->
                        Tagged(Element(ElementsFailing[j]).exc,
                               Aggregate(root, <<>>), ElementsFailing[j] - 1)])

\* C2: a Sequence or Tuple node whose input passes coercion converts every
\* element, in order, also after one has failed; with no failing element it
\* returns the converted elements in input order, as many as the input holds;
\* otherwise it returns nothing and raises a failure with no message whose child
\* failures are those of the failing positions, ascending, each with pos its index.
C2_EveryElementConverted ==
    PositionalCalled =>
        /\ ChildCalls = [i \in 1..Len(Elements) |-> Event(op, ElementNode(i), Elements[i])]
        /\ IF ElementsFailing = <<>>
           THEN LET items == [i \in 1..Len(Elements) |-> Element(i).val]
                IN /\ ConverterReturned(IF root.typ.cls = "Sequence" THEN VList(items)
                                        ELSE VTuple(items))
                   /\ arg0.t \in {"list", "tuple"} => Len(items) = Len(arg0.items)
           ELSE /\ ~out.ok
                /\ out.val = None
                /\ out.exc = PositionalAggregate

\* a Sequence call where the first element failed and a later one was converted
C2_Witness ==
    /\ PositionalCalled
    /\ Len(Elements) >= 2
    /\ ~Element(1).ok
    /\ Element(2).ok
    /\ Len(ChildCalls) = Len(Elements)
    /\ ~out.ok

-----------------------------------------------------------------------------
(* C3 *)

\* C3: a Mapping node whose declared children all convert returns, under policy
\* ignore, exactly the converted declared children; under preserve, those plus
\* every unmatched input entry as given; under raise it raises the 'unrecognized
\* keys' failure listing the unmatched entries if there are any, and otherwise
\* returns the converted declared children. The caller's input is left as it was.
C3_UnknownKeyPolicies ==
    (MappingCalled /\ MappingFailing = <<>>) =>
        /\ arg = arg0
        /\ CASE root.typ.unknown_keys = "ignore" -> ConverterReturned(MappingConverted)
             [] root.typ.unknown_keys = "preserve" ->
                   /\ ConverterReturned(DictUpdate(MappingConverted, Unmatched))
                   /\ \A k \in DOMAIN Unmatched.d : out.val.d[k] = arg0.d[k]
             [] root.typ.unknown_keys = "raise" ->
                   IF DOMAIN Unmatched.d # {}
                   THEN ~out.ok /\ out.exc = UnrecognizedFailure
                   ELSE ConverterReturned(MappingConverted)

\* a Mapping call under policy preserve that returned an unmatched entry with
\* the converted children
C3_Witness ==
    /\ MappingCalled
    /\ MappingFailing = <<>>
    /\ root.typ.unknown_keys = "preserve"
    /\ DOMAIN Unmatched.d # {}
    /\ DOMAIN InDict.d \cap Declared # {}
    /\ out.ok
    /\ DOMAIN out.val.d = Declared \cup DOMAIN Unmatched.d

-----------------------------------------------------------------------------
(* C4 *)

RequiredAbsent(i) == Required(root.nodes[i]) /\ Absent(i)

\* the key of the leaf path of child i of the Mapping root: its name after the
\* name of the Mapping node, when that is not empty
ChildKey(i) ==
    IF root.name = "" THEN root.nodes[i].name
    ELSE root.name \o "." \o root.nodes[i].name

\* C4, as stated: inbound conversion by any Mapping node of an input without the
\* entry of a required child fails, and asdict of the failure raised holds an
\* entry keyed by the name of that child.
C4_KeyedByChildName ==
    \A i \in 1..Len(root.nodes) :
        (MappingCalled /\ op = "deserialize" /\ RequiredAbsent(i)) =>
            /\ ~out.ok
            /\ pc = "reported" =>
                  report.ok /\ root.nodes[i].name \in DOMAIN report.errors

\* C4, amended: inbound conversion by a Mapping node of an input without the
\* entry of a required child fails. Unless the policy is raise and an input entry
\* matches no declared child, the failure raised holds a 'required but missing'
\* child failure for that child, whose path key is the child's name after the
\* name of the Mapping node and '.', when that name is not empty, and the report
\* asdict returns holds that key. Under raise with an unmatched entry the failure
\* is the 'unrecognized keys' one and the report is keyed by the Mapping's name.
C4_KeyedByPath ==
    \A i \in 1..Len(root.nodes) :
        (MappingCalled /\ op = "deserialize" /\ RequiredAbsent(i)) =>
            /\ ~out.ok
            /\ IF RaiseWithUnmatched
               THEN /\ out.exc = UnrecognizedFailure
                    /\ pc = "reported" =>
                          report.ok /\ DOMAIN report.errors = {root.name}
               ELSE /\ \E j \in 1..Len(out.exc.children) :
                          /\ out.exc.children[j].node = root.nodes[i]
                          /\ PathKey(<<out.exc, out.exc.children[j]>>) = ChildKey(i)
                    /\ (pc = "reported" /\ report.ok) =>
                          /\ ChildKey(i) \in DOMAIN report.errors
                          /\ report.errors[ChildKey(i)] =
                                "'" \o root.nodes[i].name \o "' is required but missing"

\* the report of a Mapping node named m that lacked its required child a
C4_Witness ==
    /\ MappingCalled
    /\ op = "deserialize"
    /\ root.name = "m"
    /\ RequiredAbsent(1)
    /\ pc = "reported"
    /\ report.ok
    /\ "m.a" \in DOMAIN report.errors
    /\ "a" \notin DOMAIN report.errors

-----------------------------------------------------------------------------
(* C5 *)

\* the segment of failure j of a path: its position when the failure before it
\* on the path concerns a positionally addressed node, else the name of its node
Segment(path, j) ==
    IF j > 1 /\ IsPositional(path[j - 1].node.typ) /\ path[j].pos # None
    THEN ToString(path[j].pos.i)
    ELSE path[j].node.name

Segments(path) == [j \in 1..Len(path) |-> Segment(path, j)]

RaisedPaths == IF Called /\ ~out.ok THEN Paths(out.exc) ELSE <<>>

\* C5, as stated: the key of a leaf path is one segment per failure on the path,
\* joined with '.'.
C5_OneSegmentPerFailure ==
    /\ \A p \in 1..Len(RaisedPaths) :
          PathKey(RaisedPaths[p]) = JoinStr(Segments(RaisedPaths[p]), ".")
    /\ (pc = "reported" /\ report.ok) =>
          DOMAIN report.errors =
             {JoinStr(Segments(RaisedPaths[p]), ".") : p \in 1..Len(RaisedPaths)}

NonEmptySegments(path) == SelectSeq(Segments(path), LAMBDA k : k # "")

\* C5, amended: the key of a leaf path is the segments of the failures on the
\* path that are not empty, joined with '.': a failure whose node has an empty
\* name, and whose parent is not positionally addressed, adds no segment. The
\* segment of a failure under a Sequence or Tuple failure is its position, never
\* the name of its node.
C5_NonEmptySegments ==
    /\ \A p \in 1..Len(RaisedPaths) :
          PathKey(RaisedPaths[p]) = JoinStr(NonEmptySegments(RaisedPaths[p]), ".")
    /\ (pc = "reported" /\ report.ok) =>
          DOMAIN report.errors =
             {JoinStr(NonEmptySegments(RaisedPaths[p]), ".") : p \in 1..Len(RaisedPaths)}

\* the report of a Sequence of Integer nodes given ['1', 'bad']: its only key is '1'
C5_Witness ==
    /\ root.typ.cls = "Sequence"
    /\ root.nodes[1].typ.cls = "Integer"
    /\ root.nodes[1].name = "e"
    /\ arg0 = VList(<<VStr("1"), VStr("bad")>>)
    /\ op = "deserialize"
    /\ pc = "reported"
    /\ report.ok
    /\ DOMAIN report.errors = {"1"}

-----------------------------------------------------------------------------
(* C6 *)

\* C6: asdict of a failure raised by a conversion call never fails: it returns a
\* mapping with one entry per leaf-path key, the non-empty messages along the
\* path joined with '; '.
C6_AsdictNeverFails ==
    pc = "reported" =>
        /\ report.ok
        /\ DOMAIN report.errors = {PathKey(RaisedPaths[p]) : p \in 1..Len(RaisedPaths)}
        /\ \A k \in DOMAIN report.errors :
              \E p \in 1..Len(RaisedPaths) :
                 /\ PathKey(RaisedPaths[p]) = k
                 /\ report.errors[k] = PathValue(RaisedPaths[p])

-----------------------------------------------------------------------------
(* C7 *)

RECURSIVE AllBoolean(_)
\* a tree of Mapping, Sequence and Tuple nodes whose leaves are Boolean nodes
AllBoolean(n) ==
    IF IsLeaf(n) THEN n.typ.cls = "Boolean"
    ELSE \A i \in 1..Len(n.nodes) : AllBoolean(n.nodes[i])

RECURSIVE ValidInternal(_, _)
\* v is an internal value of the tree n: a bool at a Boolean node, a list of
\* values of the template at a Sequence node, a tuple of one value per child at
\* a Tuple node, a dict of one value per child at a Mapping node, with other
\* entries only under policy preserve
ValidInternal(n, v) ==
    CASE n.typ.cls = "Boolean" -> v.t = "bool"
      [] n.typ.cls = "Integer" -> v.t = "int"
      [] n.typ.cls = "Sequence" ->
            /\ v.t = "list"
            /\ \A i \in 1..Len(v.items) : ValidInternal(n.nodes[1], v.items[i])
      [] n.typ.cls = "Tuple" ->
            /\ v.t = "tuple"
            /\ Len(v.items) = Len(n.nodes)
            /\ \A i \in 1..Len(n.nodes) : ValidInternal(n.nodes[i], v.items[i])
      [] n.typ.cls = "Mapping" ->
            /\ v.t = "dict"
            /\ \A i \in 1..Len(n.nodes) :
                  /\ n.nodes[i].name \in DOMAIN v.d
                  /\ ValidInternal(n.nodes[i], v.d[n.nodes[i].name])
            /\ n.typ.unknown_keys # "preserve" =>
                  DOMAIN v.d = {n.nodes[i].name : i \in 1..Len(n.nodes)}

\* C7: for a tree of Mapping, Sequence and Tuple nodes with Boolean leaves and a
\* valid internal value v of it, serialize(v) does not fail, and neither does
\* deserialize of what it returned, which returns v.
C7_RoundTrip ==
    /\ (Called /\ op = "serialize" /\ AllBoolean(root)
               /\ ValidInternal(root, arg0))
          => out.ok
    /\ (Called /\ prev.op = "serialize" /\ AllBoolean(root)
               /\ ValidInternal(root, prev.arg0))
          => (out.ok /\ out.val = prev.arg0)

\* the round trip of a Mapping of a Sequence and a Tuple with a False in each
C7_Witness ==
    /\ prev.op = "serialize"
    /\ root.typ.cls = "Mapping"
    /\ Nested(root)
    /\ AllBoolean(root)
    /\ ValidInternal(root, prev.arg0)
    /\ \E i \in 1..Len(prev.arg0.d["s"].items) : prev.arg0.d["s"].items[i] = VBool(FALSE)
    /\ \E i \in 1..Len(prev.arg0.d["t"].items) : prev.arg0.d["t"].items[i] = VBool(FALSE)
    /\ out.ok
    /\ out.val = prev.arg0
    /\ out.val # prev.out.val

-----------------------------------------------------------------------------
(* C8 *)

SequenceCalled == Called /\ root.typ.cls = "Sequence"

\* not iterable, or a mapping
Scalar(v) == ~HasIter(v) \/ HasGet(v)

NotIterableFailure == Invalid(root, VStr(PyRepr(arg0) \o " is not iterable"))

\* C8, as stated: given an input that is not iterable or is a mapping, a Sequence
\* node with accept_scalar false fails 'not iterable' and never calls the
\* template; with accept_scalar true the inbound conversion succeeds and returns
\* the one-element list of the template's inbound conversion of the input.
C8_ScalarAlwaysSucceeds ==
    (SequenceCalled /\ Scalar(arg0)) =>
        IF ~root.typ.accept_scalar
        THEN ~out.ok /\ out.exc = NotIterableFailure /\ ChildCalls = <<>>
        ELSE op = "deserialize" =>
                /\ out.ok
                /\ out.val = VList(<<SchemaNode_call("deserialize", root.nodes[1], arg0).val>>)

\* C8, amended: given an input that is not iterable or is a mapping, a Sequence
\* node with accept_scalar false fails 'not iterable' and never calls the
\* template; with accept_scalar true the inbound conversion calls the template
\* once on the input and, when that succeeds, returns the one-element list of
\* what it returned; when the template fails on the input, the Sequence fails
\* with the aggregated failure holding the template's failure at position 0.
C8_ScalarAsOneElement ==
    (SequenceCalled /\ Scalar(arg0)) =>
        IF ~root.typ.accept_scalar
        THEN ~out.ok /\ out.exc = NotIterableFailure /\ ChildCalls = <<>>
        ELSE op = "deserialize" =>
                LET t == SchemaNode_call("deserialize", root.nodes[1], arg0)
                IN /\ ChildCalls = <<Event("deserialize", root.nodes[1], arg0)>>
                   /\ IF t.ok THEN ConverterReturned(VList(<<t.val>>))
                      ELSE /\ ~out.ok
                           /\ out.exc = Aggregate(root,
                                 <<Tagged(t.exc, Aggregate(root, <<>>), 0)>>)

\* a Sequence with accept_scalar that returned the one-element list of a scalar
C8_Witness ==
    /\ SequenceCalled
    /\ Scalar(arg0)
    /\ root.typ.accept_scalar
    /\ op = "deserialize"
    /\ root.nodes[1].typ.cls = "Integer"
    /\ out.ok
    /\ out.val = VList(<<VInt(3)>>)

\* a Sequence without accept_scalar that refused a mapping
C8_WitnessRefused ==
    /\ SequenceCalled
    /\ arg0.t = "dict"
    /\ ~root.typ.accept_scalar
    /\ ~out.ok

-----------------------------------------------------------------------------
(* C9 *)

TupleCalled == Called /\ root.typ.cls = "Tuple" /\ HasIter(arg0)

\* C9: a Tuple node with n children given m elements, m # n, raises one failure
\* on the Tuple node, whose message states n and m, without child failures, and
\* converts no element; given n elements it converts each and, when none fails,
\* returns the tuple of the n converted values.
C9_TupleArity ==
    TupleCalled =>
        LET n == Len(root.nodes)
            m == PyLen(arg0)
        IN IF m # n
           THEN /\ ~out.ok
                /\ out.exc.node = root
                /\ out.exc.msg = VStr(PyStr(arg0) \o " has an incorrect number of elements "
                                        \o "(expected " \o ToString(n) \o ", was "
                                        \o ToString(m) \o ")")
                /\ out.exc.children = <<>>
                /\ out.log = <<Event(op, root, arg0)>>
           ELSE /\ Len(ChildCalls) = n
                /\ out.ok => /\ out.val.t = "tuple"
                             /\ Len(out.val.items) = n
                             /\ \A i \in 1..n : out.val.items[i] = Element(i).val
                /\ ElementsFailing = <<>> => out.ok

\* a Tuple of two children given one element
C9_Witness ==
    /\ TupleCalled
    /\ Len(root.nodes) = 2
    /\ PyLen(arg0) = 1
    /\ ~out.ok
    /\ out.exc.children = <<>>

\* a Tuple of two children that returned two converted values
C9_WitnessReturned ==
    /\ TupleCalled
    /\ Len(root.nodes) = 2
    /\ op = "deserialize"
    /\ arg0.t = "list"
    /\ out.ok
    /\ Len(out.val.items) = 2

-----------------------------------------------------------------------------
(* C10 *)

ValidatorCalls == SelectSeq(out.log, LAMBDA e : e.call = "validator")

RootValidatorCalls == SelectSeq(ValidatorCalls, LAMBDA e : e.node = root)

\* C10: deserialize runs the validator of the node once, after the converter has
\* returned and on the value it returned, and not at all when the converter
\* failed; a failure of the validator is raised as it is, a failure concerning
\* the node, and no value is returned. serialize runs no validator, of the node
\* or of a node below it.
C10_ValidatorAfterConverter ==
    /\ (Called /\ op = "serialize") => ValidatorCalls = <<>>
    /\ (Called /\ op = "deserialize") =>
          LET c == Typ_deserialize(root, arg0)
          IN IF ~c.ok \/ root.validator = NoValidator
             THEN /\ RootValidatorCalls = <<>>
                  /\ out.ok = c.ok
                  /\ ~c.ok => out.exc = c.exc
             ELSE /\ RootValidatorCalls = <<Event("validator", root, c.val)>>
                  /\ out.log[Len(out.log)] = Event("validator", root, c.val)
                  /\ LET e == Validator_call(root.validator, root, c.val)
                     IN IF e = None THEN out.ok /\ out.val = c.val
                        ELSE /\ ~out.ok
                             /\ out.val = None
                             /\ out.exc = e
                             /\ out.exc.node = root
                             /\ out.exc.children = <<>>
                             /\ out.exc.parent = None

\* an inbound call whose converter returned a value that the validator refused
C10_Witness ==
    /\ Called
    /\ op = "deserialize"
    /\ root.validator # NoValidator
    /\ Typ_deserialize(root, arg0).ok
    /\ ~out.ok
    /\ Len(RootValidatorCalls) = 1

\* an outbound call of a value that the validator of the node would refuse
C10_WitnessOutbound ==
    /\ Called
    /\ op = "serialize"
    /\ root.validator # NoValidator
    /\ out.ok
    /\ Typ_deserialize(root, arg0).ok
    /\ Validator_call(root.validator, root, Typ_deserialize(root, arg0).val) # None

-----------------------------------------------------------------------------
(* C11 *)

\* declared child i of the Mapping root has a default and no entry in the input
OptionalAbsent(i) == ~Required(root.nodes[i]) /\ Absent(i)

\* the calls of child i's deserialize or serialize that the Mapping call made
CallsOf(i) == SelectSeq(out.log, LAMBDA e : e.node = root.nodes[i])

\* the failure raised holds a child failure that concerns child i
FailureOf(i) ==
    /\ ~out.ok
    /\ \E j \in 1..Len(out.exc.children) : out.exc.children[j].node = root.nodes[i]

\* C11, as stated: in a Mapping conversion, inbound or outbound, the handling of
\* a child that has a default and no entry in the input calls no conversion of
\* the child and never fails: no failure for the child is on the failure raised,
\* and a result holds under the child's name the default itself (inbound) or the
\* serialized default (outbound).
C11_DefaultNeverConverted ==
    \A i \in 1..Len(root.nodes) :
        (MappingCalled /\ OptionalAbsent(i)) =>
            /\ CallsOf(i) = <<>>
            /\ ~FailureOf(i)
            /\ out.ok =>
                  out.val.d[root.nodes[i].name] =
                     IF op = "deserialize" THEN root.nodes[i].default
                     ELSE Typ_serialize(root.nodes[i], root.nodes[i].default).val

\* C11, amended: inbound, the handling of a child that has a default and no entry
\* calls no conversion of the child and never fails, and a result holds the
\* default itself, neither converted nor validated. Outbound, the child's
\* serialize is called once, on the default: when the converter serializes the
\* default a result holds the serialized default and no failure is attached for
\* the child; when it does not, the Mapping call fails, with the child's failure
\* on the aggregated failure at the child's declaration index, unless the policy
\* is raise and an entry is unmatched, where the failure is the 'unrecognized
\* keys' one.
C11_DefaultSerializedOutbound ==
    \A i \in 1..Len(root.nodes) :
        (MappingCalled /\ OptionalAbsent(i)) =>
            LET sub == root.nodes[i]
                s == Typ_serialize(sub, sub.default)
            IN IF op = "deserialize"
               THEN /\ CallsOf(i) = <<>>
                    /\ ~FailureOf(i)
                    /\ out.ok => out.val.d[sub.name] = sub.default
               ELSE /\ CallsOf(i) = <<Event("serialize", sub, sub.default)>>
                    /\ IF s.ok
                       THEN /\ ~FailureOf(i)
                            /\ out.ok => out.val.d[sub.name] = s.val
                       ELSE /\ ~out.ok
                            /\ IF RaiseWithUnmatched
                               THEN out.exc = UnrecognizedFailure
                               ELSE \E j \in 1..Len(out.exc.children) :
                                       out.exc.children[j] =
                                          Tagged(s.exc, Aggregate(root, <<>>), i - 1)

\* an inbound call whose result holds the default 0 of an absent child, a value
\* the child's validator Range(min=2) would refuse
C11_Witness ==
    /\ MappingCalled
    /\ op = "deserialize"
    /\ OptionalAbsent(1)
    /\ root.nodes[1].validator = Range(VInt(2), None)
    /\ out.ok
    /\ out.val.d[root.nodes[1].name] = VInt(0)

\* an outbound call that failed on the default None of an absent Integer child
C11_WitnessOutbound ==
    /\ MappingCalled
    /\ op = "serialize"
    /\ OptionalAbsent(1)
    /\ root.nodes[1].default = None
    /\ ~out.ok
    /\ Len(out.exc.children) >= 1
    /\ out.exc.children[1].msg = VStr("None is not a number")

-----------------------------------------------------------------------------
(* C12 *)

RECURSIVE WellFormed(_)
\* failure e and the failures below it: each has a message or children and not
\* both, and each child's parent link is to the failure that lists it
WellFormed(e) ==
    /\ (e.msg # None) # (e.children # <<>>)
    /\ \A j \in 1..Len(e.children) :
          /\ e.children[j].parent # None
          /\ e.children[j].parent.node = e.node
          /\ WellFormed(e.children[j])

RECURSIVE Depth(_)
\* the number of failures on the longest path of the tree of e
Depth(e) ==
    IF e.children = <<>> THEN 1
    ELSE 1 + CHOOSE d \in 1..8 :
                /\ \E j \in 1..Len(e.children) : Depth(e.children[j]) = d
                /\ \A j \in 1..Len(e.children) : Depth(e.children[j]) <= d

\* C12: in the failure raised by an inbound or outbound conversion every failure
\* node has a message or at least one child failure, a failure node that has
\* children has no message, every child failure's parent link is to the failure
\* node whose child list holds it, and the root failure has no parent.
C12_WellFormedTree ==
    (Called /\ ~out.ok) =>
        /\ out.exc.parent = None
        /\ WellFormed(out.exc)

\* an inbound call that raised a tree three failures deep: the aggregate of a
\* Sequence, the aggregate of a Mapping element, the failure of its child
C12_Witness ==
    /\ Called
    /\ op = "deserialize"
    /\ ~out.ok
    /\ Depth(out.exc) = 3
    /\ out.exc.msg = None
    /\ out.exc.children[1].msg = None

\* an outbound call that raised an aggregate over two child failures
C12_WitnessOutbound ==
    /\ Called
    /\ op = "serialize"
    /\ ~out.ok
    /\ Len(out.exc.children) = 2

====
